---- MODULE Spec2Model ----
(***************************************************************************)
(* Order placement and inventory consistency of the marketplace backend.   *)
(*                                                                         *)
(* The store is a PostgreSQL database reached through SQLAlchemy sessions  *)
(* (autoflush=False, expire_on_commit=False, one session per request).     *)
(* The variables stock/price/active/seller_id, cart, orders and            *)
(* order_items hold the COMMITTED rows; what a request has changed in its  *)
(* session but not yet committed lives in the per-request variables and is *)
(* lost when the request ends without committing (session close = roll     *)
(* back).  Every await of create_order_from_cart is one step, so requests  *)
(* interleave exactly where the event loop can switch between them.        *)
(*                                                                         *)
(* Money: Product.price is a Float column, OrderItem.unit_price,           *)
(* OrderItem.total_price and Order.total_amount are Numeric(10, 2).  The   *)
(* model counts prices in thousandths (mills) of the currency unit and the *)
(* Numeric(10, 2) columns in hundredths (cents); ToNumeric2 is the         *)
(* rounding the database applies when a value is stored in such a column.  *)
(***************************************************************************)
EXTENDS Integers, Sequences, FiniteSets, TLC

\* ---------------------------------------------------------------- bounds
MaxStock   == 1      \* largest stock a seller sets (products start with it) and
                     \* largest quantity of a cart line
MaxWrites  == 4      \* requests served that write to the store

Users    == {1, 2}           \* buyers
Products == {1, 2}
Sellers  == {11, 12}         \* users with role "seller"
Requests == {1, 2}           \* concurrently served POST /orders/create
PriceSet == {4, 10}          \* prices a seller sets, in mills (0.004, 0.010)

NoOrder == 0                 \* "this request has inserted no Order"

VARIABLES
    stock,        \* products.stock      : [Products -> Int]
    price,        \* products.price      : [Products -> mills]
    active,       \* products.is_active  : [Products -> BOOLEAN]
    cart,         \* cart_items          : [Users -> [Products -> Nat]], 0 = no row
    orders,       \* orders              : Seq of [user_id, status, total_amount]
    order_items,  \* order_items         : set of rows
    nupdates,     \* update requests (update_product, update_status) that wrote
                  \* to the store so far
    nadds,        \* add_to_cart requests served so far
    pc,           \* position of each checkout request
    user,         \* the authenticated user of the request (0: no request)
    cart_items,   \* the list get_user_cart returned to the request
    idx,          \* index of the next cart item of the for loop
    total_amount, \* local total_amount (float, mills)
    pending_stock,\* product.stock attributes changed in the session, not flushed:
                  \* a function from the products touched to their new stock
    pending_items,\* OrderItem objects added to the session, not flushed
    deleted,      \* cart rows removed by the DELETE of clear_cart, not committed
    oid,          \* id of the Order the request inserted, or NoOrder
    result,       \* outcome of the worker's last request: [kind, code]
    response,     \* answer to the last order or cart request served in one
                  \* step: [kind, code, body], body a set of Order representations
    row_locks     \* product rows the request's transaction has updated and
                  \* not yet committed: it holds their row locks

db       == <<stock, price, active, cart, orders, order_items>>
locals   == <<pc, user, cart_items, idx, total_amount, pending_stock,
              pending_items, deleted, oid, result, row_locks>>
vars     == <<stock, price, active, cart, orders, order_items, nupdates, nadds,
              pc, user, cart_items, idx, total_amount, pending_stock,
              pending_items, deleted, oid, result, response, row_locks>>

\* ------------------------------------------------------------- constants
seller_id == [p \in Products |-> 11]      \* every product is owned by seller 11

NoResult == [kind |-> "none", code |-> 0]

\* ---------------------------------------------------------------- helpers
\* The database stores a float in a Numeric(10, 2) column rounded to two
\* fraction digits (mills -> cents, half away from zero).
ToNumeric2(m) == (m + 5) \div 10

\* All orderings of the rows of a SELECT without ORDER BY.
RECURSIVE Perms(_)
Perms(S) ==
    IF S = {} THEN {<<>>}
    ELSE UNION {{<<x>> \o t : t \in Perms(S \ {x})} : x \in S}

\* get_user_cart: the user's cart rows, in the order the database returns them.
get_user_cart(u) ==
    LET rows == {[product_id |-> p, quantity |-> cart[u][p]] :
                    p \in {q \in Products : cart[u][q] > 0}}
    IN  Perms(rows)

RECURSIVE SumTotalPrice(_)
SumTotalPrice(S) ==
    IF S = {} THEN 0
    ELSE LET x == CHOOSE y \in S : TRUE
         IN  x.total_price + SumTotalPrice(S \ {x})

ItemsOf(o) == {it \in order_items : it.order_id = o}

\* A cart row that an uncommitted DELETE of another request holds locked.
Locked(u, p) == \E r \in Requests : pc[r] = "deleting" /\ user[r] = u /\ p \in deleted[r]

\* Mutation of EndRequest: the session's transaction is left open, the row
\* locks it holds are not released.
EndRequest_KeepLocks(r) ==
    /\ pc' = [pc EXCEPT ![r] = "idle"]
    /\ user' = [user EXCEPT ![r] = 0]
    /\ oid' = [oid EXCEPT ![r] = NoOrder]
    /\ cart_items' = [cart_items EXCEPT ![r] = <<>>]
    /\ idx' = [idx EXCEPT ![r] = 0]
    /\ total_amount' = [total_amount EXCEPT ![r] = 0]
    /\ pending_stock' = [pending_stock EXCEPT ![r] = <<>>]
    /\ pending_items' = [pending_items EXCEPT ![r] = {}]
    /\ deleted' = [deleted EXCEPT ![r] = {}]
    /\ UNCHANGED row_locks

\* The request is over and its session closed: whatever the session had not
\* committed is rolled back, and the locals of the call are gone.
EndRequest(r) ==
    /\ pc' = [pc EXCEPT ![r] = "idle"]
    /\ user' = [user EXCEPT ![r] = 0]
    /\ oid' = [oid EXCEPT ![r] = NoOrder]
    /\ cart_items' = [cart_items EXCEPT ![r] = <<>>]
    /\ idx' = [idx EXCEPT ![r] = 0]
    /\ total_amount' = [total_amount EXCEPT ![r] = 0]
    /\ pending_stock' = [pending_stock EXCEPT ![r] = <<>>]
    /\ pending_items' = [pending_items EXCEPT ![r] = {}]
    /\ deleted' = [deleted EXCEPT ![r] = {}]
    /\ row_locks' = [row_locks EXCEPT ![r] = {}]

\* Requests that have written to the store, or have read a cart to check out.
Writes == nupdates + nadds + Len(orders) + Cardinality({r \in Requests : pc[r] = "cart_read"})

\* ------------------------------------------------------------------- Init
\* The store after the sellers have created the products, each with
\* `units` in stock, and after every buyer has put `quantity` of every
\* product into the cart (no cart line if that is 0).
InitStore(units, quantity) ==
    /\ stock = [p \in Products |-> units]
    /\ price = [p \in Products |-> 4]
    /\ active = [p \in Products |-> TRUE]
    /\ cart = [u \in Users |-> [p \in Products |-> quantity]]
    /\ orders = <<>>
    /\ order_items = {}
    /\ nupdates = 0
    /\ nadds = 0
    /\ pc = [r \in Requests |-> "idle"]
    /\ user = [r \in Requests |-> 0]
    /\ cart_items = [r \in Requests |-> <<>>]
    /\ idx = [r \in Requests |-> 0]
    /\ total_amount = [r \in Requests |-> 0]
    /\ pending_stock = [r \in Requests |-> <<>>]
    /\ pending_items = [r \in Requests |-> {}]
    /\ deleted = [r \in Requests |-> {}]
    /\ oid = [r \in Requests |-> NoOrder]
    /\ result = [r \in Requests |-> NoResult]
    /\ response = [kind |-> "none", code |-> 0, body |-> {}]
    /\ row_locks = [r \in Requests |-> {}]

\* The store before any buyer has done anything.
InitStock(units) == InitStore(units, 0)

Init == InitStock(MaxStock)

\* ------------------------------------------------ create_order_from_cart
\* Mutation of CartIsEmpty: the emptiness check is missing.
CartIsEmpty_Missing(items) == FALSE

\* Line 44: "if not cart_items".
CartIsEmpty(items) == items = <<>>

\* Lines 42-48: read the cart; an empty cart is HTTP 400 "Cart is empty.".
\* The idle worker with the lowest number takes the request.
GetUserCart(r, u) ==
    /\ pc[r] = "idle"
    /\ \A t \in Requests : t < r => pc[t] # "idle"
    /\ \E items \in get_user_cart(u) :
          IF CartIsEmpty(items)
          THEN /\ result' = [result EXCEPT ![r] = [kind |-> "EmptyCart", code |-> 400]]
               /\ UNCHANGED <<pc, user, cart_items>>
          ELSE /\ Writes < MaxWrites
               /\ pc' = [pc EXCEPT ![r] = "cart_read"]
               /\ user' = [user EXCEPT ![r] = u]
               /\ result' = [result EXCEPT ![r] = NoResult]
               /\ cart_items' = [cart_items EXCEPT ![r] = items]
    /\ UNCHANGED <<db, nupdates, nadds, idx, total_amount, pending_stock, pending_items,
                   deleted, oid, response, row_locks>>

\* BaseRepository.create: insert the row and commit.
create(row) == Append(orders, row)

\* Lines 50-57: the Order header is inserted and committed, total_amount = 0.
CreateOrderHeader(r) ==
    /\ pc[r] = "cart_read"
    /\ orders' = create([user_id |-> user[r], status |-> "pending", total_amount |-> 0])
    /\ oid' = [oid EXCEPT ![r] = Len(orders) + 1]
    /\ total_amount' = [total_amount EXCEPT ![r] = 0]
    /\ idx' = [idx EXCEPT ![r] = 1]
    /\ pc' = [pc EXCEPT ![r] = "loop"]
    /\ UNCHANGED <<stock, price, active, cart, order_items, nupdates, nadds, user, cart_items,
                   pending_stock, pending_items, deleted, result, response, row_locks>>

\* The request raises HTTPException: the session is closed, which rolls back.
Raise(r, kind, code) ==
    /\ result' = [result EXCEPT ![r] = [kind |-> kind, code |-> code]]
    /\ EndRequest(r)
    /\ UNCHANGED <<db, nupdates, nadds, response>>

\* Line 62: "if not product or not product.is_active"; products are never
\* deleted, so session.get always finds the row.
Unavailable(p) == ~active[p]

\* Mutation of NotEnoughStock: the stock check is missing.
NotEnoughStock_Missing(p, quantity) == FALSE

\* Line 68: "if product.stock < item.quantity".
NotEnoughStock(p, quantity) == stock[p] < quantity

\* Mutation of ProcessItem: the debit of a line is written to the store and
\* committed as soon as the line has passed its checks.
ProcessItem_DebitAtOnce(r) ==
    /\ pc[r] = "loop"
    /\ idx[r] <= Len(cart_items[r])
    /\ LET item == cart_items[r][idx[r]]
           p == item.product_id
           position_total == price[p] * item.quantity
       IN  IF Unavailable(p)
           THEN Raise(r, "ProductUnavailable", 400)
           ELSE IF NotEnoughStock(p, item.quantity)
           THEN Raise(r, "InsufficientStock", 400)
           ELSE /\ pending_stock' = [pending_stock EXCEPT ![r] =
                                         (p :> (stock[p] - item.quantity)) @@ @]
                /\ total_amount' = [total_amount EXCEPT ![r] = @ + position_total]
                /\ pending_items' = [pending_items EXCEPT ![r] = @ \cup
                       {[order_id |-> oid[r], product_id |-> p, quantity |-> item.quantity,
                         unit_price |-> price[p], total_price |-> position_total]}]
                /\ idx' = [idx EXCEPT ![r] = @ + 1]
                /\ stock' = [stock EXCEPT ![p] = @ - item.quantity]
                /\ UNCHANGED <<price, active, cart, orders, order_items, nupdates, nadds,
                               pc, user, cart_items, deleted, oid, result, response,
                               row_locks>>

\* Lines 59-86: one pass of the for loop.  session.get reads the committed
\* product row; the debit and the OrderItem stay in the session.
ProcessItem(r) ==
    /\ pc[r] = "loop"
    /\ idx[r] <= Len(cart_items[r])
    /\ LET item == cart_items[r][idx[r]]
           p == item.product_id
           position_total == price[p] * item.quantity
       IN  IF Unavailable(p)
           THEN Raise(r, "ProductUnavailable", 400)
           ELSE IF NotEnoughStock(p, item.quantity)
           THEN Raise(r, "InsufficientStock", 400)
           ELSE /\ pending_stock' = [pending_stock EXCEPT ![r] =
                                         (p :> (stock[p] - item.quantity)) @@ @]
                /\ total_amount' = [total_amount EXCEPT ![r] = @ + position_total]
                /\ pending_items' = [pending_items EXCEPT ![r] = @ \cup
                       {[order_id |-> oid[r], product_id |-> p, quantity |-> item.quantity,
                         unit_price |-> price[p], total_price |-> position_total]}]
                /\ idx' = [idx EXCEPT ![r] = @ + 1]
                /\ UNCHANGED <<db, nupdates, nadds, pc, user, cart_items, deleted, oid, result,
                               response, row_locks>>

\* Lines 88-90 and clear_cart line 121: the DELETE statement runs in the open
\* transaction; it waits while another transaction holds one of the rows.
ClearCartDelete(r) ==
    /\ pc[r] = "loop"
    /\ idx[r] > Len(cart_items[r])
    /\ \A p \in Products : ~Locked(user[r], p)
    /\ deleted' = [deleted EXCEPT ![r] = {p \in Products : cart[user[r]][p] > 0}]
    /\ pc' = [pc EXCEPT ![r] = "deleting"]
    /\ UNCHANGED <<db, nupdates, nadds, user, cart_items, idx, total_amount, pending_stock,
                   pending_items, oid, result, response, row_locks>>

\* clear_cart line 122: session.commit() flushes the session (UPDATE products
\* SET stock = <value computed in Python>, INSERT order_items, UPDATE orders
\* SET total_amount) and commits it together with the DELETE.  Lines 92-94
\* then commit with nothing left to write, refresh and return the order.
ClearCartCommit(r) ==
    /\ pc[r] = "deleting"
    /\ stock' = [p \in Products |->
                    IF p \in DOMAIN pending_stock[r] THEN pending_stock[r][p] ELSE stock[p]]
    /\ order_items' = order_items \cup
          {[it EXCEPT !.unit_price = ToNumeric2(@), !.total_price = ToNumeric2(@)] :
              it \in pending_items[r]}
    /\ orders' = [orders EXCEPT ![oid[r]].total_amount = ToNumeric2(total_amount[r])]
    /\ cart' = [cart EXCEPT ![user[r]] =
                    [p \in Products |-> IF p \in deleted[r] THEN 0 ELSE @[p]]]
    /\ EndRequest(r)
    /\ result' = [result EXCEPT ![r] = [kind |-> "ok", code |-> 201]]
    /\ UNCHANGED <<price, active, nupdates, nadds, response>>

\* The request is cancelled at an await, or a commit fails: the exception
\* leaves create_order_from_cart and get_async_db closes the session.
Abort(r) ==
    /\ pc[r] \in {"cart_read", "loop", "deleting"}
    /\ Raise(r, "aborted", 500)

\* ------------------------------------------------------------ add_to_cart
\* CartRepository.add_to_cart: select the user's row for the product, add to
\* its quantity or insert a new row, and commit.  It runs while no checkout
\* holds the row locked, and looks at neither is_active nor the stock.  Cart
\* quantities are kept within MaxStock.
AddToCart(u, p, quantity) ==
    /\ ~Locked(u, p)
    /\ cart[u][p] + quantity <= MaxStock
    /\ Writes < MaxWrites
    /\ nadds' = nadds + 1
    /\ cart' = [cart EXCEPT ![u][p] = @ + quantity]
    /\ UNCHANGED <<stock, price, active, orders, order_items, nupdates, locals, response>>

\* --------------------------------------------------------- update_product
\* The fields a PATCH /products/{id} body may set (ProductUpdate).
Unset == [price |-> 0, stock |-> -1, is_active |-> "unset"]
ProductUpdates ==
    {[Unset EXCEPT !.price = v] : v \in PriceSet} \cup
    {[Unset EXCEPT !.stock = v] : v \in 0..MaxStock} \cup
    {[Unset EXCEPT !.is_active = v] : v \in {"true", "false"}}

\* Mutation of update: a new price is also written to the product's order lines.
update_Repricing(p, data) ==
    /\ UNCHANGED <<cart, orders>>
    /\ order_items' = {IF it.product_id = p /\ data.price # 0
                          THEN [it EXCEPT !.unit_price = ToNumeric2(data.price),
                                          !.total_price = ToNumeric2(data.price * it.quantity)]
                          ELSE it : it \in order_items}
    /\ price' = [price EXCEPT ![p] = IF data.price # 0 THEN data.price ELSE @]
    /\ stock' = [stock EXCEPT ![p] = IF data.stock # -1 THEN data.stock ELSE @]
    /\ active' = [active EXCEPT ![p] = IF data.is_active = "unset" THEN @
                                         ELSE data.is_active = "true"]

\* BaseRepository.update: setattr for every given field, then commit.
update(p, data) ==
    /\ UNCHANGED <<cart, orders, order_items>>
    /\ price' = [price EXCEPT ![p] = IF data.price # 0 THEN data.price ELSE @]
    /\ stock' = [stock EXCEPT ![p] = IF data.stock # -1 THEN data.stock ELSE @]
    /\ active' = [active EXCEPT ![p] = IF data.is_active = "unset" THEN @
                                         ELSE data.is_active = "true"]

\* ProductService.update_product: only the owning seller may update.
UpdateProduct(p, seller, data) ==
    /\ Writes < MaxWrites
    /\ IF seller_id[p] # seller
       THEN UNCHANGED <<db, nupdates>>
       ELSE update(p, data) /\ nupdates' = nupdates + 1
    /\ UNCHANGED <<nadds, locals, response>>

\* ------------------------------------------------------------------- Next
Next ==
    \/ \E r \in Requests, u \in Users : GetUserCart(r, u)
    \/ \E r \in Requests : CreateOrderHeader(r)
    \/ \E r \in Requests : ProcessItem(r)
    \/ \E r \in Requests : ClearCartDelete(r)
    \/ \E r \in Requests : ClearCartCommit(r)
    \/ \E r \in Requests : Abort(r)
    \/ \E u \in Users, p \in Products, q \in 1..MaxStock : AddToCart(u, p, q)
    \/ \E p \in Products, s \in Sellers, d \in ProductUpdates : UpdateProduct(p, s, d)

Spec == Init /\ [][Next]_vars

\* ------------------------------------------------------------- order API
\* The statuses an Order is documented to take.
OrderStatuses == {"pending", "paid", "shipped", "delivered", "canceled"}

\* Values of the new_status query parameter (any str is accepted by the
\* route): one documented status and one that is not.
StatusInputs == {"paid", "refunded"}

Admins    == {21}                    \* users with role "admin"
Anonymous == 0                       \* a request without a token
Callers   == Users \cup Admins \cup {Anonymous}
role(c) == IF c \in Admins THEN "admin" ELSE IF c \in Sellers THEN "seller"
           ELSE IF c \in Users THEN "buyer" ELSE "none"

\* Order ids a request may name: the stored ones and one that does not exist.
OrderIds == 1..(Len(orders) + 1)

\* The Order response schema, as far as the model has the fields.
OrderRepr(o, row) ==
    [id |-> o, user_id |-> row.user_id, status |-> row.status,
     total_amount |-> row.total_amount]

\* kind names the error, or the shape of the body: "order", "orders".
Answer(kind, code, body) == [kind |-> kind, code |-> code, body |-> body]

\* Mutation of UpdateStatus: UPDATE orders SET status WHERE id = order_id
\* without looking whether a row was found.
UpdateStatus_NoLookup(caller, order_id, new_status) ==
    /\ Writes < MaxWrites
    /\ nupdates' = nupdates + 1
    /\ orders' = [o \in DOMAIN orders |->
                     IF o = order_id THEN [orders[o] EXCEPT !.status = new_status]
                     ELSE orders[o]]
    /\ response' = Answer("order", 200, {OrderRepr(o, orders'[o]) : o \in DOMAIN orders \cap {order_id}})
    /\ UNCHANGED <<stock, price, active, cart, order_items, nadds, locals>>

\* Mutation of UpdateStatus: the UPDATE has no WHERE clause.
UpdateStatus_AllRows(caller, order_id, new_status) ==
    /\ IF order_id \notin DOMAIN orders
       THEN /\ response' = Answer("OrderNotFound", 404, {})
            /\ UNCHANGED <<orders, nupdates>>
       ELSE /\ Writes < MaxWrites
            /\ nupdates' = nupdates + 1
            /\ orders' = [o \in DOMAIN orders |-> [orders[o] EXCEPT !.status = new_status]]
            /\ response' = Answer("order", 200, {OrderRepr(order_id, orders'[order_id])})
    /\ UNCHANGED <<stock, price, active, cart, order_items, nadds, locals>>

\* PATCH /orders/{order_id}/status and OrderService.update_status.  The route
\* depends on the database session only: it neither authenticates the caller
\* nor looks at new_status.  An update that is committed is one of the
\* MaxWrites writes.
UpdateStatus(caller, order_id, new_status) ==
    /\ IF order_id \notin DOMAIN orders
       THEN /\ response' = Answer("OrderNotFound", 404, {})
            /\ UNCHANGED <<orders, nupdates>>
       ELSE /\ Writes < MaxWrites
            /\ nupdates' = nupdates + 1
            /\ orders' = [orders EXCEPT ![order_id].status = new_status]
            /\ response' = Answer("order", 200, {OrderRepr(order_id, orders'[order_id])})
    /\ UNCHANGED <<stock, price, active, cart, order_items, nadds, locals>>

\* Mutation of NotOwner: the ownership check is missing.
NotOwner_Missing(order_id, caller) == FALSE

\* get_order line 49: "if order.user_id != user.id".
NotOwner(order_id, caller) == orders[order_id].user_id # caller

\* GET /orders/{order_id}.  get_by_id returns None for an id that is not
\* stored, and line 49 then reads None.user_id: AttributeError, HTTP 500.
GetOrder(caller, order_id) ==
    /\ response' =
          IF order_id \notin DOMAIN orders THEN Answer("AttributeError", 500, {})
          ELSE IF NotOwner(order_id, caller) THEN Answer("Forbidden", 403, {})
          ELSE Answer("order", 200, {OrderRepr(order_id, orders[order_id])})
    /\ UNCHANGED <<db, nupdates, nadds, locals>>

\* Mutation of get_by_user: the SELECT has no WHERE clause.
get_by_user_All(user_id) == {OrderRepr(o, orders[o]) : o \in DOMAIN orders}

\* OrderRepository.get_by_user: SELECT ... WHERE orders.user_id = :user_id.
get_by_user(user_id) ==
    LET rows == SelectSeq([o \in DOMAIN orders |-> OrderRepr(o, orders[o])],
                          LAMBDA row : row.user_id = user_id)
    IN  {rows[i] : i \in DOMAIN rows}

\* GET /orders/my.
GetMyOrders(caller) ==
    /\ response' = Answer("orders", 200, get_by_user(caller))
    /\ UNCHANGED <<db, nupdates, nadds, locals>>

\* Orders are placed by one checkout at a time (worker 1).
NextCheckout ==
    \/ \E u \in Users : GetUserCart(1, u)
    \/ CreateOrderHeader(1)
    \/ ProcessItem(1)
    \/ ClearCartDelete(1)
    \/ ClearCartCommit(1)
    \/ Abort(1)
    \/ \E u \in Users, p \in Products, q \in 1..MaxStock : AddToCart(u, p, q)

\* Status updates served between the steps of the checkouts.
NextStatus ==
    \/ NextCheckout
    \/ \E c \in Callers, o \in OrderIds, st \in StatusInputs : UpdateStatus(c, o, st)

StatusSpec == Init /\ [][NextStatus]_vars

\* Order reads served between the steps of the checkouts.
NextRead ==
    \/ NextCheckout
    \/ \E c \in Users, o \in OrderIds : GetOrder(c, o)
    \/ \E c \in Users : GetMyOrders(c)

ReadSpec == Init /\ [][NextRead]_vars

\* --------------------------------------------------------------- cart API
\* POST /cart/ and CartService.add_to_cart.  After the product checks the
\* service calls self.repository.get_item, a method that neither
\* CartRepository nor BaseRepository defines: AttributeError, HTTP 500.  No
\* branch writes to the store.
ServiceAddToCart(u, p, quantity) ==
    /\ response' =
          IF ~active[p] THEN Answer("ProductNotFound", 404, {})
          ELSE IF stock[p] < quantity THEN Answer("NotEnoughStock", 400, {})
          ELSE Answer("AttributeError", 500, {})
    /\ UNCHANGED <<db, nupdates, nadds, locals>>

\* Mutation of ClearCart: an empty cart is rejected, as a checkout's is.
ClearCart_RejectEmpty(u) ==
    /\ \A p \in Products : ~Locked(u, p)
    /\ IF \A p \in Products : cart[u][p] = 0
       THEN /\ response' = Answer("EmptyCart", 400, {})
            /\ UNCHANGED cart
       ELSE /\ cart' = [cart EXCEPT ![u] = [p \in Products |-> 0]]
            /\ response' = Answer("cleared", 204, {})
    /\ UNCHANGED <<stock, price, active, orders, order_items, nupdates, nadds, locals>>

\* CartRepository.clear_cart called on its own: DELETE FROM cart_items WHERE
\* user_id = :user_id, then commit.
ClearCart(u) ==
    /\ \A p \in Products : ~Locked(u, p)
    /\ cart' = [cart EXCEPT ![u] = [p \in Products |-> 0]]
    /\ response' = Answer("cleared", 204, {})
    /\ UNCHANGED <<stock, price, active, orders, order_items, nupdates, nadds, locals>>

\* DELETE /cart/ and CartService.clear_cart: its first statement calls
\* self.repository.filter_by, which no repository defines: AttributeError,
\* HTTP 500, before anything is deleted.
ServiceClearCart(u) ==
    /\ response' = Answer("AttributeError", 500, {})
    /\ UNCHANGED <<db, nupdates, nadds, locals>>

\* Values of the quantity field of a request body: one that the schemas
\* refuse, every one that fits a product's stock, and one beyond.
QuantityInputs == {-1} \cup 1..(MaxStock + 1)

\* Mutation of ValidQuantity: the quantity field has no lower bound.
ValidQuantity_Any(quantity) == TRUE

\* CartItemBase.quantity and CartItemUpdate.quantity: Field(..., ge=1).  A
\* body that fails it is answered 422 before the route function runs.
ValidQuantity(quantity) == quantity >= 1

\* A cart line is added for a request body that passed CartItemCreate.
AddCartItem(u, p, quantity) ==
    /\ ValidQuantity(quantity)
    /\ AddToCart(u, p, quantity)

\* Mutation of PostCartItem: the product checks are skipped and the line is
\* written by CartRepository.add_to_cart.
PostCartItem_NoChecks(u, p, quantity) ==
    /\ ~Locked(u, p)
    /\ IF ~ValidQuantity(quantity)
       THEN /\ response' = Answer("ValidationError", 422, {})
            /\ UNCHANGED cart
       ELSE /\ cart' = [cart EXCEPT ![u][p] = @ + quantity]
            /\ response' = Answer("cart_item", 201, {})
    /\ UNCHANGED <<stock, price, active, orders, order_items, nupdates, nadds, locals>>

\* POST /cart/: the body is validated against CartItemCreate, then
\* CartService.add_to_cart is called.
PostCartItem(u, p, quantity) ==
    IF ~ValidQuantity(quantity)
    THEN /\ response' = Answer("ValidationError", 422, {})
         /\ UNCHANGED <<db, nupdates, nadds, locals>>
    ELSE ServiceAddToCart(u, p, quantity)

\* CartService.update_quantity.  Line 86 calls CartRepository.remove_item,
\* which deletes the user's row for the product, commits, and returns a bool.
\* No row: 404.  Otherwise the row is gone, and: quantity <= 0 returns True,
\* which the route cannot serialise as a CartItem (500); quantity above the
\* stock raises 400; else line 98 sets an attribute of the bool:
\* AttributeError, HTTP 500.
UpdateQuantity(u, p, quantity) ==
    /\ ~Locked(u, p)
    /\ IF cart[u][p] = 0
       THEN /\ response' = Answer("NotInCart", 404, {})
            /\ UNCHANGED cart
       ELSE /\ cart' = [cart EXCEPT ![u][p] = 0]
            /\ response' =
                  IF quantity <= 0 THEN Answer("ResponseValidationError", 500, {})
                  ELSE IF quantity > stock[p] THEN Answer("ExceedsStock", 400, {})
                  ELSE Answer("AttributeError", 500, {})
    /\ UNCHANGED <<stock, price, active, orders, order_items, nupdates, nadds, locals>>

\* PATCH /cart/{product_id}: the body is validated against CartItemUpdate,
\* then CartService.update_quantity is called.
UpdateCartItem(u, p, quantity) ==
    IF ~ValidQuantity(quantity)
    THEN /\ response' = Answer("ValidationError", 422, {})
         /\ UNCHANGED <<db, nupdates, nadds, locals>>
    ELSE UpdateQuantity(u, p, quantity)

\* DELETE /cart/{product_id}: CartService.remove_from_cart raises 404 when
\* remove_item found no row, and returns None when it deleted one; the route
\* answers 404 for a falsy return value, so it answers 404 either way.
RemoveFromCart(u, p) ==
    /\ ~Locked(u, p)
    /\ cart' = [cart EXCEPT ![u][p] = 0]
    /\ response' = Answer("NotInCart", 404, {})
    /\ UNCHANGED <<stock, price, active, orders, order_items, nupdates, nadds, locals>>

\* The product updates that the cart requests can observe: by the owner, of
\* the stock or of is_active.
StockUpdates == {d \in ProductUpdates : d.price = 0}

NextCart ==
    \/ \E u \in Users, p \in Products, q \in QuantityInputs : AddCartItem(u, p, q)
    \/ \E u \in Users, p \in Products, q \in QuantityInputs : PostCartItem(u, p, q)
    \/ \E u \in Users, p \in Products, q \in QuantityInputs : UpdateCartItem(u, p, q)
    \/ \E u \in Users, p \in Products : RemoveFromCart(u, p)
    \/ \E u \in Users : ClearCart(u)
    \/ \E u \in Users : ServiceClearCart(u)
    \/ \E p \in Products, d \in StockUpdates : UpdateProduct(p, seller_id[p], d)

\* The products start with one unit more than the largest cart line, so that
\* a line in the cart can be added to within the stock.
InitCart == InitStock(MaxStock + 1)

CartSpec == InitCart /\ [][NextCart]_vars

\* The requests that create, change and delete cart lines, with one
\* checkout in flight at a time.
NextCartLine ==
    \/ \E u \in Users, p \in Products, q \in QuantityInputs : AddCartItem(u, p, q)
    \/ \E u \in Users, p \in Products, q \in QuantityInputs : PostCartItem(u, p, q)
    \/ \E u \in Users, p \in Products, q \in QuantityInputs : UpdateCartItem(u, p, q)
    \/ \E u \in Users, p \in Products : RemoveFromCart(u, p)
    \/ \E u \in Users : ClearCart(u)
    \/ \E u \in Users : GetUserCart(1, u)
    \/ CreateOrderHeader(1)
    \/ ProcessItem(1)
    \/ ClearCartDelete(1)
    \/ ClearCartCommit(1)

CartLineSpec == InitCart /\ [][NextCartLine]_vars

\* ------------------------------------------------- flush of the checkout
\* The members of a set of primary keys in ascending order.
RECURSIVE Ascending(_)
Ascending(S) ==
    IF S = {} THEN <<>>
    ELSE LET m == CHOOSE x \in S : \A y \in S : x <= y
         IN  <<m>> \o Ascending(S \ {m})

\* Mutation of FlushOrder: the UPDATEs are emitted in the order in which the
\* for loop changed the products.
FlushOrder_AsProcessed(r) == [i \in DOMAIN cart_items[r] |-> cart_items[r][i].product_id]

\* clear_cart line 122, session.commit(): the flush emits one UPDATE products
\* per product whose stock the loop changed; the unit of work orders the
\* changed rows of a table by primary key.
FlushOrder(r) == Ascending(DOMAIN pending_stock[r])

\* The UPDATEs of request r's flush that are still to be emitted.
ToFlush(r) == SelectSeq(FlushOrder(r), LAMBDA p : p \notin row_locks[r])

\* One UPDATE products SET stock = ... of the flush: it takes the row lock of
\* the product, and waits while another open transaction holds it.  The new
\* value is invisible to other transactions until the commit.
FlushStock(r) ==
    /\ pc[r] = "deleting"
    /\ ToFlush(r) # <<>>
    /\ LET p == Head(ToFlush(r))
       IN  /\ \A t \in Requests \ {r} : p \notin row_locks[t]
           /\ row_locks' = [row_locks EXCEPT ![r] = @ \cup {p}]
    /\ UNCHANGED <<db, nupdates, nadds, pc, user, cart_items, idx, total_amount,
                   pending_stock, pending_items, deleted, oid, result, response>>

\* The rest of session.commit() once every UPDATE products has been emitted:
\* INSERT order_items, UPDATE orders, COMMIT; the row locks are released.
FlushCommit(r) ==
    /\ ToFlush(r) = <<>>
    /\ ClearCartCommit(r)

\* Checkouts with the flush emitted statement by statement.
NextLock ==
    \/ \E r \in Requests, u \in Users : GetUserCart(r, u)
    \/ \E r \in Requests : CreateOrderHeader(r)
    \/ \E r \in Requests : ProcessItem(r)
    \/ \E r \in Requests : ClearCartDelete(r)
    \/ \E r \in Requests : FlushStock(r)
    \/ \E r \in Requests : FlushCommit(r)

\* Every buyer has put the whole stock of every product into the cart.
InitLock == InitStore(MaxStock, MaxStock)

LockSpec == InitLock /\ [][NextLock]_vars

\* A step of request r's coroutine: the event loop resumes a coroutine whose
\* awaited statement has completed.
CheckoutStep(r) ==
    \/ CreateOrderHeader(r)
    \/ ProcessItem(r)
    \/ ClearCartDelete(r)
    \/ FlushStock(r)
    \/ FlushCommit(r)

FairLockSpec == LockSpec /\ \A r \in Requests : WF_vars(CheckoutStep(r))

\* ================================================================ claims
\* The step in which request r ends with the outcome `kind`.
EndsWith(r, kind) == pc[r] # "idle" /\ pc'[r] = "idle" /\ result'[r].kind = kind

\* The order has lines in the store: its checkout has succeeded.
Succeeded(o) == ItemsOf(o) # {}

\* Quantity of product p in the lines of order o.
QtyOrdered(o, p) ==
    IF \E it \in ItemsOf(o) : it.product_id = p
    THEN (CHOOSE it \in ItemsOf(o) : it.product_id = p).quantity
    ELSE 0

\* Quantity of product p in the cart list request r works on.
QtyInCall(r, p) ==
    IF \E i \in DOMAIN cart_items[r] : cart_items[r][i].product_id = p
    THEN cart_items[r][CHOOSE i \in DOMAIN cart_items[r] : cart_items[r][i].product_id = p].quantity
    ELSE 0

\* C1: a checkout that fails with InsufficientStock changes no product's
\* stock and leaves no Order row (header or line) of that call in the store.
C1_InsufficientStockAllOrNothing ==
    [][\A r \in Requests : EndsWith(r, "InsufficientStock") =>
          /\ stock' = stock
          /\ oid[r] \notin DOMAIN orders'
          /\ \A it \in order_items' : it.order_id # oid[r]]_vars

\* C2: in every committed state of the store every Order row has at least
\* one OrderItem.
C2_NoOrderWithoutLines == \A o \in DOMAIN orders : ItemsOf(o) # {}

\* C3: two checkouts of different users that both succeeded, with no product
\* update in between, together ordered at most the stock the product had
\* (without updates that is the stock it started with).
C3_BothSucceedOnlyWithinStock ==
    \A o1, o2 \in DOMAIN orders : \A p \in Products :
        (/\ orders[o1].user_id # orders[o2].user_id
         /\ Succeeded(o1) /\ Succeeded(o2)
         /\ nupdates = 0)
            => QtyOrdered(o1, p) + QtyOrdered(o2, p) <= MaxStock

\* C4: the committed stock of every product is never negative.
C4_StockNeverNegative == \A p \in Products : stock[p] >= 0

\* C4 witness: two checkouts have debited the same product and it is sold out.
C4_Witness ==
    \E p \in Products :
        /\ stock[p] = 0
        /\ \E a, b \in order_items : a.product_id = p /\ b.product_id = p /\ a.order_id # b.order_id

\* C5: the Order of a successful checkout has total_amount equal to the
\* sum of total_price over its OrderItems.
C5_TotalIsSumOfLines ==
    \A o \in DOMAIN orders :
        Succeeded(o) => orders[o].total_amount = SumTotalPrice(ItemsOf(o))

\* C6: the commit of a successful checkout leaves the user's cart without
\* lines and lowers the stock of each product by exactly the ordered quantity
\* (by nothing for a product that is not in the cart).  Stated for the
\* checkouts that no product update and no change of the user's cart has
\* overtaken, where "before" and "after" the call mean the same to everyone.
C6_CartEmptiedStockDebited ==
    [][\A r \in Requests :
          (/\ EndsWith(r, "ok")
           /\ nupdates = 0
           /\ \A p \in Products : cart[user[r]][p] = QtyInCall(r, p))
          => /\ \A p \in Products : cart'[user[r]][p] = 0
             /\ \A p \in Products : stock'[p] = stock[p] - QtyInCall(r, p)]_vars

\* C7: a checkout that finds the cart empty fails with EmptyCart (HTTP 400)
\* and changes nothing in the store, also when the call is repeated: a call
\* goes on past the cart read only with a cart that has lines, and otherwise
\* it ends at once as EmptyCart with the store as it was.
C7_EmptyCartIsNoOp ==
    [][\A r \in Requests :
          (pc[r] = "idle" /\ <<pc[r], result[r]>> # <<pc'[r], result'[r]>>)
          => IF pc'[r] = "idle"
             THEN /\ result'[r] = [kind |-> "EmptyCart", code |-> 400]
                  /\ \E u \in Users : \A p \in Products : cart[u][p] = 0
                  /\ oid'[r] = NoOrder
                  /\ UNCHANGED db
             ELSE \E p \in Products : cart[user'[r]][p] > 0]_vars

\* C7 witness: a checkout on an empty cart has been rejected after an earlier
\* checkout succeeded and emptied a cart.
C7_Witness ==
    \E r \in Requests :
        /\ pc[r] = "idle" /\ result[r].kind = "EmptyCart"
        /\ \E o \in DOMAIN orders : Succeeded(o)

\* C8: a checkout that fails with ProductUnavailable persists no Order header
\* and no OrderItem, and leaves the cart and all stocks as they were.
C8_UnavailableAllOrNothing ==
    [][\A r \in Requests : EndsWith(r, "ProductUnavailable") =>
          /\ stock' = stock
          /\ cart' = cart
          /\ oid[r] \notin DOMAIN orders'
          /\ \A it \in order_items' : it.order_id # oid[r]]_vars

\* C9: a checkout that is interrupted, or whose commit fails, after the cart
\* was read leaves no stock debit, no Order row and no cart change behind.
C9_AbortAllOrNothing ==
    [][\A r \in Requests : EndsWith(r, "aborted") =>
          /\ stock' = stock
          /\ cart' = cart
          /\ oid[r] \notin DOMAIN orders'
          /\ \A it \in order_items' : it.order_id # oid[r]]_vars

\* C10: an OrderItem row, once stored, stays in the store with the same
\* product_id, quantity, unit_price and total_price, whatever happens later
\* (in particular updates of the product's price).
C10_OrderItemsAreSnapshots ==
    [][\A it \in order_items : it \in order_items']_vars

\* C10 witness: an order line whose unit_price is no longer the product's price.
C10_Witness ==
    \E it \in order_items : it.unit_price # ToNumeric2(price[it.product_id])

\* The price (mills) that request r read for product p in its for loop.
PriceRead(r, p) == (CHOOSE it \in pending_items[r] : it.product_id = p).unit_price

\* C11: the commit of a successful checkout leaves an Order of the calling
\* user with status "pending" and exactly one OrderItem per cart line read,
\* with the cart line's product_id and quantity, unit_price equal to the
\* price the checkout read for the product, and total_price = unit_price
\* times quantity.
C11_OrderMirrorsCart ==
    [][\A r \in Requests : EndsWith(r, "ok") =>
          LET lines == {it \in order_items' : it.order_id = oid[r]}
          IN  /\ orders'[oid[r]].user_id = user[r]
              /\ orders'[oid[r]].status = "pending"
              /\ Cardinality(lines) = Len(cart_items[r])
              /\ \A i \in DOMAIN cart_items[r] :
                    \E it \in lines :
                       /\ it.product_id = cart_items[r][i].product_id
                       /\ it.quantity = cart_items[r][i].quantity
                       /\ 10 * it.unit_price = PriceRead(r, it.product_id)
                       /\ it.total_price = it.unit_price * it.quantity]_vars

\* C12: the status of every stored Order is one of pending, paid, shipped,
\* delivered, canceled (an update_status with any other value is rejected
\* and stores nothing).
C12_StatusInFixedSet == \A o \in DOMAIN orders : orders[o].status \in OrderStatuses

\* C13: update_status on an order id that is not stored answers
\* OrderNotFound (HTTP 404) and changes no order and no order line.
C13_UnknownOrderIs404 ==
    [][\A o \in OrderIds \ DOMAIN orders :
          (\E c \in Callers, st \in StatusInputs : UpdateStatus(c, o, st))
          => /\ response' = Answer("OrderNotFound", 404, {})
             /\ orders' = orders
             /\ order_items' = order_items]_vars

\* C13 witness: OrderNotFound has been answered while orders are stored,
\* one of them with lines.
C13_Witness ==
    /\ response = Answer("OrderNotFound", 404, {})
    /\ \E o \in DOMAIN orders : Succeeded(o)

\* C14: GET /orders/{id} by an authenticated user who is not the owner of the
\* stored order answers 403 without any order representation, and whatever
\* order the route does return belongs to the requester.
C14_OrderOnlyToOwner ==
    [][\A c \in Users, o \in OrderIds :
          GetOrder(c, o)
          => /\ (o \in DOMAIN orders /\ orders[o].user_id # c)
                   => (response'.code = 403 /\ response'.body = {})
             /\ \A b \in response'.body : b.user_id = c]_vars

\* C14 witness: a 403 has been answered while an order with lines is stored.
C14_Witness ==
    /\ response = Answer("Forbidden", 403, {})
    /\ \E o \in DOMAIN orders : Succeeded(o)

\* C15: GET /orders/{id} for an id that is not stored answers OrderNotFound,
\* a 4xx outcome.
C15_UnknownOrderIs4xx ==
    [][\A c \in Users, o \in OrderIds :
          (GetOrder(c, o) /\ o \notin DOMAIN orders)
          => (response'.kind = "OrderNotFound" /\ response'.code \in 400..499)]_vars

\* C16: GET /orders/my returns exactly the stored orders whose user_id is the
\* caller's id: every order of the caller, as stored, and no order of
\* another user.
C16_MyOrdersExactlyMine ==
    [][\A c \in Users :
          GetMyOrders(c)
          => /\ \A b \in response'.body :
                   /\ b.user_id = c
                   /\ b.id \in DOMAIN orders
                   /\ b = OrderRepr(b.id, orders[b.id])
             /\ \A o \in DOMAIN orders :
                   orders[o].user_id = c => \E b \in response'.body : b.id = o]_vars

\* C16 witness: a list of orders has been returned that leaves out a stored
\* order of another user.
C16_Witness ==
    /\ response.kind = "orders"
    /\ \E b \in response.body : \E o \in DOMAIN orders : orders[o].user_id # b.user_id

\* C19: an order whose checkout is over keeps its owner, its total_amount
\* and its lines in every step, and update_status changes nothing but the
\* status of the order it names: no other order, no order line.
C19_OnlyStatusChanges ==
    [][/\ \A o \in DOMAIN orders :
             (\A r \in Requests : oid[r] # o)
             => /\ o \in DOMAIN orders'
                /\ orders'[o].user_id = orders[o].user_id
                /\ orders'[o].total_amount = orders[o].total_amount
                /\ {it \in order_items' : it.order_id = o} = ItemsOf(o)
       /\ \A o \in OrderIds :
             \/ /\ order_items' = order_items
                /\ DOMAIN orders' = DOMAIN orders
                /\ \A o2 \in DOMAIN orders : o2 # o => orders'[o2] = orders[o2]
             \/ \A c \in Callers, st \in StatusInputs : ~UpdateStatus(c, o, st)]_vars

\* C19 witness: an order with lines has been given another status while
\* another order is still pending.
C19_Witness ==
    \E o1, o2 \in DOMAIN orders :
        /\ Succeeded(o1) /\ orders[o1].status = "paid"
        /\ orders[o2].status = "pending"

\* C20: a request by a caller who is not an authenticated admin changes the
\* status of no order.
C20_StatusUpdateAdminOnly ==
    [][\A c \in Callers, o \in OrderIds, st \in StatusInputs :
          (UpdateStatus(c, o, st) /\ role(c) # "admin")
          => \A o2 \in DOMAIN orders : orders'[o2].status = orders[o2].status]_vars

\* C17: add_to_cart of an available product that is already in the user's
\* cart, within the stock, adds the quantity to that line (the cart is a
\* quantity per user and product, so a second line cannot appear) and
\* leaves every other line as it was.
C17_ReAddIncrements ==
    [][\A u \in Users, p \in Products, q \in 1..(MaxStock + 1) :
          (/\ ServiceAddToCart(u, p, q)
           /\ cart[u][p] > 0
           /\ active[p]
           /\ cart[u][p] + q <= stock[p])
          => cart' = [cart EXCEPT ![u][p] = @ + q]]_vars

\* C18: clear(userId) of the cart store is not an error on an empty cart,
\* leaves the user without lines and every other user's lines unchanged, and
\* a clear of a cart that is already empty (a second clear) changes nothing.
C18_ClearIsIdempotent ==
    [][\A u \in Users :
          ClearCart(u)
          => /\ response'.code < 400
             /\ \A p \in Products : cart'[u][p] = 0
             /\ \A v \in Users \ {u} : cart'[v] = cart[v]
             /\ (\A p \in Products : cart[u][p] = 0) => cart' = cart
             /\ UNCHANGED <<stock, price, active, orders, order_items>>]_vars

\* C18 witness: a cart has been cleared while another user's cart has lines.
C18_Witness ==
    /\ response = Answer("cleared", 204, {})
    /\ \E u, v \in Users :
          /\ \A p \in Products : cart[u][p] = 0
          /\ \E p \in Products : cart[v][p] > 0

\* Sum of the quantities of a set of order lines.
RECURSIVE SumQuantity(_)
SumQuantity(S) ==
    IF S = {} THEN 0
    ELSE LET x == CHOOSE y \in S : TRUE
         IN  x.quantity + SumQuantity(S \ {x})

\* C21: while no seller has changed a product, the quantities of the stored
\* OrderItems of every product add up to the stock it started with minus its
\* current stock, under every interleaving of the checkouts.
C21_StockConservation ==
    nupdates = 0 =>
        \A p \in Products :
            SumQuantity({it \in order_items : it.product_id = p}) = MaxStock - stock[p]

\* C23: the commit of a successful checkout deletes only cart lines that
\* the checkout has turned into OrderItems: a line it deletes is a line it
\* read, with the quantity it read.
C23_ClearsOnlyOrderedLines ==
    [][\A r \in Requests : EndsWith(r, "ok") =>
          \A p \in Products :
             (cart[user[r]][p] > 0 /\ cart'[user[r]][p] = 0)
             => QtyInCall(r, p) = cart[user[r]][p]]_vars

\* C24: every cart line becomes OrderItems of at most one Order: there are
\* never more stored OrderItems than cart lines that were ever added.
C24_LineOrderedOnce == Cardinality(order_items) <= nadds

\* C25: the list of cart lines a checkout works through is in ascending
\* order of product_id.
C25_AscendingProductOrder ==
    \A r \in Requests : \A i, j \in DOMAIN cart_items[r] :
        i < j => cart_items[r][i].product_id < cart_items[r][j].product_id

\* Request r has passed the for loop: every line it read has passed the
\* availability and the stock check, and the session holds its debit.
AllValidated(r) ==
    /\ pc[r] = "deleting"
    /\ idx[r] > Len(cart_items[r])
    /\ \A i \in DOMAIN cart_items[r] : cart_items[r][i].product_id \in DOMAIN pending_stock[r]

\* C22: within one checkout no product's stock is debited until every cart
\* line has passed the availability and stock validation: the store sees an
\* UPDATE of a product row, and a changed stock, only from a checkout that
\* has validated all its lines (the debits computed in the loop stay in the
\* session until then).
C22_DebitAfterValidation ==
    [][/\ \A p \in Products : stock'[p] # stock[p] =>
             \E r \in Requests : /\ AllValidated(r)
                                 /\ pc'[r] = "idle"
                                 /\ p \in DOMAIN pending_stock[r]
                                 /\ stock'[p] = pending_stock[r][p]
       /\ \A r \in Requests : ~(row_locks'[r] \subseteq row_locks[r]) => AllValidated(r)]_vars

\* C22 witness: a checkout holds the debit of its first line in the session
\* and is about to reject its second line for insufficient stock.
C22_Witness ==
    \E r \in Requests :
        /\ pc[r] = "loop" /\ idx[r] = 2 /\ Len(cart_items[r]) = 2
        /\ cart_items[r][1].product_id \in DOMAIN pending_stock[r]
        /\ row_locks[r] = {}
        /\ NotEnoughStock(cart_items[r][2].product_id, cart_items[r][2].quantity)

\* Request r cannot take its next step before request t has ended: it waits
\* for a cart row that t has deleted, or for a product row that t has updated.
WaitsFor(r, t) ==
    /\ r # t
    /\ \/ /\ pc[r] = "loop" /\ idx[r] > Len(cart_items[r])
          /\ pc[t] = "deleting" /\ user[t] = user[r] /\ deleted[t] # {}
       \/ /\ pc[r] = "deleting" /\ ToFlush(r) # <<>>
          /\ Head(ToFlush(r)) \in row_locks[t]

\* C26: two concurrent checkouts whose carts share products never deadlock:
\* in no reachable state does each of them wait for a row held by the other.
C26_NoDeadlock ==
    \A r \in Requests, t \in Requests : ~(WaitsFor(r, t) /\ WaitsFor(t, r))

\* C26 witness: two checkouts that debit the same two products are flushing,
\* and one waits for a product row the other holds.
C26_Witness ==
    \E r \in Requests, t \in Requests :
        /\ WaitsFor(r, t)
        /\ pc[r] = "deleting" /\ pc[t] = "deleting"
        /\ DOMAIN pending_stock[r] = Products /\ DOMAIN pending_stock[t] = Products

\* C27: update_quantity on a product in the user's cart with 1 <= q <= stock
\* answers the updated cart item and leaves the line with quantity q; on a
\* product not in the cart it answers 404 and leaves the cart unchanged.
C27_UpdateSetsQuantity ==
    [][\A u \in Users, p \in Products, q \in QuantityInputs :
          UpdateCartItem(u, p, q) =>
             /\ (cart[u][p] > 0 /\ 1 <= q /\ q <= stock[p])
                   => (response'.code = 200 /\ cart' = [cart EXCEPT ![u][p] = q])
             /\ (ValidQuantity(q) /\ cart[u][p] = 0)
                   => (response'.code = 404 /\ cart' = cart)]_vars

C30_CheckoutTerminates ==
    \A r \in Requests : (pc[r] # "idle") ~> (pc[r] = "idle")

\* C30 witness: a checkout has to wait at its DELETE for the cart rows that
\* another checkout of the same user has deleted and not yet committed.
C30_Witness ==
    \E r \in Requests, t \in Requests :
        /\ WaitsFor(r, t)
        /\ pc[r] = "loop"

====
